---- MODULE Spec2Model ----
(***************************************************************************)
(* Relay core of the GDevelop P2P server (latest revision of the server    *)
(* script: players map, class Player, peer.on("connection")).              *)
(*                                                                         *)
(* A session is one Player object, wrapping one DataConnection.  All work  *)
(* happens in event handlers and timer callbacks that run to completion,   *)
(* so every handler is one action.  The transport (PeerJS) is the          *)
(* environment: it delivers connection, open, data, close and error events *)
(* and changes peerConnection.connectionState.                             *)
(***************************************************************************)
EXTENDS Integers, Sequences, FiniteSets, Bags, TLC

\* ------------------------------------------------------------------ bounds
\* Number of DataConnections the transport hands to peer.on("connection").
MaxSessions == 3
\* Number of events the transport delivers in all (connection, open, close,
\* error, data, and changes of connectionState).  Timer callbacks are not
\* counted.
MaxEvents == 6

\* Delay of every setTimeout of the script, in milliseconds.
TimerDelay == 500

Sess == 1..MaxSessions
\* connection.peer: the identities clients connect under.
Identities == {"A", "B"}
NoId == "-"

\* ------------------------------------------------------------ JS values
\* Scalars are written as tagged strings: "n:1" is the number 1, "s:5" the
\* string "5", "s:" the empty string; "undefined", "null", "true" and "false"
\* are themselves.
Undefined == "undefined"
Zero == "n:0"

\* A decoded JSON value: an object with (possibly absent) x, y, animation,
\* null, or a scalar.
Obj(px, py, pa) == [t |-> "object", v |-> Undefined, x |-> px, y |-> py, animation |-> pa]
Scalar(s) == [t |-> "scalar", v |-> s, x |-> Undefined, y |-> Undefined, animation |-> Undefined]
Null == [t |-> "null", v |-> "null", x |-> Undefined, y |-> Undefined, animation |-> Undefined]

\* The string in e.data: either the JSON text of a value, or text that is
\* no JSON (also: e.data missing; JSON.parse(undefined) throws as well).
Json(val) == [valid |-> TRUE, val |-> val]
Garbage == [valid |-> FALSE, val |-> Scalar(Undefined)]

\* Faulty variant: the parse goes through the parseJSON helper, which swallows the
\* SyntaxError and returns undefined.
JSONparse_Helper(raw) == [throws |-> FALSE, value |-> raw.val]

\* JSON.parse(e.data) at onUpdate: a value, or a SyntaxError.
JSONparse(raw) == [throws |-> ~raw.valid, value |-> raw.val]

\* JSON.stringify(payload) at send: the text that decodes to payload.
JSONstringify(payload) == [stringified |-> TRUE, str |-> "", list |-> payload]
\* skipStringify: the payload (an identity string) goes out as it is.
RawString(s) == [stringified |-> FALSE, str |-> s, list |-> << >>]

\* JS truthiness of a scalar, as `||` tests it.
Falsy(v) == v \in {Undefined, "null", "false", "n:0", "s:"}

\* `value || 0`
OrZero(v) == IF Falsy(v) THEN Zero ELSE v

\* data.x / data.y / data.animation on a decoded value.  Reading a property
\* of null throws a TypeError; a scalar has no such property.
PropThrows(data) == data.t = "null"
GetX(data) == IF data.t = "object" THEN data.x ELSE Undefined
GetY(data) == IF data.t = "object" THEN data.y ELSE Undefined
GetAnimation(data) == IF data.t = "object" THEN data.animation ELSE Undefined

\* ------------------------------------------------------- incoming events
\* The argument e of the "data" handler.
Msg(name, raw) == [defined |-> TRUE, eventName |-> name, data |-> raw]
NoMsg == [defined |-> FALSE, eventName |-> Undefined, data |-> Garbage]

UpdateA == Msg("update", Json(Obj("n:1", "n:2", "n:0")))
\* What the bundled test client sends: the text of two input fields.
UpdateClientStrings == Msg("update", Json(Obj("s:5", "s:7", Undefined)))
UpdateEmpty == Msg("update", Json(Obj(Undefined, Undefined, Undefined)))

Events ==
    { NoMsg,
      Msg(Undefined, Json(Scalar("n:1"))),
      UpdateA, UpdateClientStrings, UpdateEmpty,
      Msg("update", Garbage),
      Msg("update", Json(Null)),
      Msg("flip", Json(Scalar("true"))),
      Msg("flip", Garbage),
      Msg("other", Json(Scalar("n:1"))),
      Msg("other", Garbage) }

\* peerConnection.connectionState.  "connected" stands for every state of a
\* live connection the checker lets pass (new, connecting, connected);
\* "closed" is the state after the connection's close().
ConnStates == {"connected", "disconnected", "failed", "closed"}

\* -------------------------------------------------------------- state
VARIABLES
    id,               \* Player.id (connection.peer) of each session, NoId before admission
    opened,           \* the connection's "open" event has fired
    handleClosed,     \* _c.close() has been called on the session's connection
    connectionState,  \* _c.peerConnection.connectionState
    x, y, animation, flip,  \* Player fields
    players,          \* the players Map: sequence of <<key, session>> in insertion order
    timers,           \* pending setTimeout callbacks: a bag of <<kind, session>>
    nevents,          \* transport events delivered so far
    sent,             \* what the handler that ran last passed to _c.send, in order
    told,             \* history: told[s] = sessions already sent "disconnected" by session s
    last              \* history: the handler that ran last (idle checker ticks aside)

vars == << id, opened, handleClosed, connectionState, x, y, animation, flip,
           players, timers, nevents, sent, told, last >>

\* ------------------------------------------------------- the players Map
\* The Map is a sequence of <<key, session>> pairs with distinct keys.
Has(pl, k) == \E i \in DOMAIN pl : pl[i][1] = k
NoSess == 0
\* players.get(k): the session, or NoSess for undefined.
Get(pl, k) == IF Has(pl, k) THEN pl[CHOOSE i \in DOMAIN pl : pl[i][1] = k][2] ELSE NoSess
\* players.delete(k)
IsNotKey(pair, k) == pair[1] # k
Delete(pl, k) == SelectSeq(pl, LAMBDA pair : IsNotKey(pair, k))
\* Faulty variant: set always adds an entry.
MapSet_Append(pl, k, s) == Append(pl, << k, s >>)

\* players.set(k, s): a present key keeps its place, a new key goes last.
MapSet(pl, k, s) ==
    IF Has(pl, k)
    THEN [ i \in DOMAIN pl |-> IF pl[i][1] = k THEN << k, s >> ELSE pl[i] ]
    ELSE Append(pl, << k, s >>)
Range(seq) == { seq[i] : i \in DOMAIN seq }
Registered(s) == \E i \in DOMAIN players : players[i][2] = s

\* ---------------------------------------------------------------- close
\* The part of the state a close() touches, threaded through the calls of
\* one handler.
World == [ players |-> players, handleClosed |-> handleClosed,
           timers |-> timers, connectionState |-> connectionState ]

\* this._c.close(): the handle is released; the peer connection is closed.
ConnClose(w, p) ==
    [ w EXCEPT !.handleClosed = @ \cup {p}, !.connectionState[p] = "closed" ]

\* Faulty variant: close() leaves the Map alone.
RemoveIfCurrent_Keep(pl, p) == pl

\* if(players.get(this.id) === this) players.delete(this.id);
RemoveIfCurrent(pl, p) == IF Get(pl, id[p]) = p THEN Delete(pl, id[p]) ELSE pl

\* setTimeout(() => this._sendEventToAll("disconnected", this.id, true), 500)
Schedule(tm, kind, p) == tm (+) SetToBag({ << kind, p >> })
Cancel(tm, kind, p) == tm (-) SetToBag({ << kind, p >> })
ScheduleGrace(tm, p) == Schedule(tm, "grace", p)

\* close() after its first line: conditional removal, updateList (display
\* only), and the grace timer.
CloseTail(w, p) ==
    [ w EXCEPT !.players = RemoveIfCurrent(@, p), !.timers = ScheduleGrace(@, p) ]

\* Player.close().  The transport may emit "close" from inside _c.close()
\* when the connection was open (emit); the "close" handler then runs
\* this.close() nested, before the outer close() goes on.
PlayerClose(w, p, emit) ==
    LET emits == emit /\ opened[p] /\ p \notin w.handleClosed
        w1 == ConnClose(w, p)
        w2 == IF emits THEN CloseTail(w1, p) ELSE w1
    IN  CloseTail(w2, p)

\* Faulty variant: the lookup of the previous session is left out.
CloseRegistered_Skip(w, i, emit) == w

\* if(players.has(id)) players.get(id).close();
CloseRegistered(w, i, emit) ==
    IF Has(w.players, i) THEN PlayerClose(w, Get(w.players, i), emit) ELSE w

\* disconnectChecker(), on a connection whose peerConnection can be read.
FailedState(st) == st = "failed" \/ st = "disconnected"
\* Faulty variant: the checker calls close() and re-arms itself all the same.
DisconnectChecker_Rearm(w, s, emit) ==
    LET w1 == IF FailedState(w.connectionState[s]) THEN PlayerClose(w, s, emit) ELSE w
    IN  [ w1 EXCEPT !.timers = Schedule(@, "check", s) ]

DisconnectChecker(w, s, emit) ==
    IF FailedState(w.connectionState[s])
    THEN PlayerClose(w, s, emit)
    ELSE [ w EXCEPT !.timers = Schedule(@, "check", s) ]

Apply(w) ==
    /\ players' = w.players
    /\ handleClosed' = w.handleClosed
    /\ timers' = w.timers
    /\ connectionState' = w.connectionState

\* ------------------------------------------------------------- sending
\* this._c.send({eventName: name, data: ...}) on session s's connection.
Send(s, name, payload, skipStringify) ==
    [ to |-> s, eventName |-> name,
      data |-> IF skipStringify THEN RawString(payload) ELSE JSONstringify(payload) ]

\* The loop of _sendEventToAll and of updateClient: the Map's entries in
\* order, without the entry whose key is this.id.
IsOther(pair, s) == pair[1] # id[s]
\* Faulty variant: the loop skips the entry that is this session instead of the entry
\* whose key is this.id.
IsOtherSession(pair, s) == pair[2] # s
Others_BySession(pl, s) == SelectSeq(pl, LAMBDA pair : IsOtherSession(pair, s))

Others(pl, s) == SelectSeq(pl, LAMBDA pair : IsOther(pair, s))

\* Faulty variant: the event goes to the entry of this.id instead of the others.
IsSelf(pair, s) == pair[1] = id[s]
SendDisconnected_Self(pl, s) ==
    [ i \in DOMAIN SelectSeq(pl, LAMBDA pair : IsSelf(pair, s)) |->
        Send(SelectSeq(pl, LAMBDA pair : IsSelf(pair, s))[i][2], "disconnected", id[s], TRUE) ]

\* _sendEventToAll("disconnected", this.id, true)
SendDisconnected(pl, s) ==
    [ i \in DOMAIN Others(pl, s) |-> Send(Others(pl, s)[i][2], "disconnected", id[s], TRUE) ]

\* Faulty variant: the entry carries y for x and x for y.
Entry_Swapped(pair, fx, fy, fa, ff) ==
    [ x |-> fy[pair[2]], y |-> fx[pair[2]], animation |-> fa[pair[2]],
      flip |-> ff[pair[2]], name |-> pair[1] ]

\* One entry of the roster built by updateClient.
Entry(pair, fx, fy, fa, ff) ==
    [ x |-> fx[pair[2]], y |-> fy[pair[2]], animation |-> fa[pair[2]],
      flip |-> ff[pair[2]], name |-> pair[1] ]
\* Faulty variant: the loop does not skip the entry of this.id.
Roster_Whole(pl, s, fx, fy, fa, ff) ==
    [ i \in DOMAIN pl |-> Entry(pl[i], fx, fy, fa, ff) ]

\* updateClient(): the payload, from the fields as they are after the update.
Roster(pl, s, fx, fy, fa, ff) ==
    [ i \in DOMAIN Others(pl, s) |-> Entry(Others(pl, s)[i], fx, fy, fa, ff) ]
\* Faulty variant: the roster is pushed to every other registered session as well.
UpdateClient_Push(pl, s, fx, fy, fa, ff) ==
    << Send(s, "update", Roster(pl, s, fx, fy, fa, ff), FALSE) >>
    \o [ i \in DOMAIN Others(pl, s) |->
           Send(Others(pl, s)[i][2], "update",
                Roster(pl, Others(pl, s)[i][2], fx, fy, fa, ff), FALSE) ]

UpdateClient(pl, s, fx, fy, fa, ff) ==
    << Send(s, "update", Roster(pl, s, fx, fy, fa, ff), FALSE) >>

\* -------------------------------------------------------------- onUpdate
\* onUpdate returns (or throws) before it assigns anything.
Ignored(e) ==
    \/ ~e.defined                        \* e === undefined
    \/ e.eventName = Undefined           \* e.eventName === undefined
    \/ JSONparse(e.data).throws          \* JSON.parse(e.data) throws
    \/ /\ e.eventName = "update"
       /\ \/ JSONparse(e.data).value = Scalar(Undefined)   \* data === undefined
          \/ PropThrows(JSONparse(e.data).value)         \* data.x on null throws

\* Faulty variant: the fields are written to the session registered under this.id
\* (this session when there is none) instead of this session.
OnUpdate_ByKey(s, e) ==
    LET data == JSONparse(e.data).value
        p == IF Has(players, id[s]) THEN Get(players, id[s]) ELSE s
        nx == [ x EXCEPT ![p] = OrZero(GetX(data)) ]
        ny == [ y EXCEPT ![p] = OrZero(GetY(data)) ]
        na == [ animation EXCEPT ![p] = OrZero(GetAnimation(data)) ]
        same == [ x |-> x, y |-> y, animation |-> animation, flip |-> flip, sent |-> << >> ]
    IN  IF Ignored(e) THEN same
        ELSE IF e.eventName = "update"
        THEN [ x |-> nx, y |-> ny, animation |-> na, flip |-> flip,
               sent |-> UpdateClient(players, s, nx, ny, na, flip) ]
        ELSE IF e.eventName = "flip"
        THEN [ same EXCEPT !.flip = [ flip EXCEPT ![p] = data ] ]
        ELSE same

\* Faulty variant: the "flip" branch calls updateClient() as the "update" branch does.
OnUpdate_FlipSends(s, e) ==
    LET data == JSONparse(e.data).value
        nx == [ x EXCEPT ![s] = OrZero(GetX(data)) ]
        ny == [ y EXCEPT ![s] = OrZero(GetY(data)) ]
        na == [ animation EXCEPT ![s] = OrZero(GetAnimation(data)) ]
        nf == [ flip EXCEPT ![s] = data ]
        same == [ x |-> x, y |-> y, animation |-> animation, flip |-> flip, sent |-> << >> ]
    IN  IF Ignored(e) THEN same
        ELSE IF e.eventName = "update"
        THEN [ x |-> nx, y |-> ny, animation |-> na, flip |-> flip,
               sent |-> UpdateClient(players, s, nx, ny, na, flip) ]
        ELSE IF e.eventName = "flip"
        THEN [ same EXCEPT !.flip = nf,
                           !.sent = UpdateClient(players, s, x, y, animation, nf) ]
        ELSE same

\* The Player fields of session s after onUpdate(e), and what it sends.
OnUpdate(s, e) ==
    LET data == JSONparse(e.data).value
        nx == [ x EXCEPT ![s] = OrZero(GetX(data)) ]
        ny == [ y EXCEPT ![s] = OrZero(GetY(data)) ]
        na == [ animation EXCEPT ![s] = OrZero(GetAnimation(data)) ]
        same == [ x |-> x, y |-> y, animation |-> animation, flip |-> flip, sent |-> << >> ]
    IN  IF Ignored(e) THEN same
        ELSE IF e.eventName = "update"
        THEN [ x |-> nx, y |-> ny, animation |-> na, flip |-> flip,
               sent |-> UpdateClient(players, s, nx, ny, na, flip) ]
        ELSE IF e.eventName = "flip"
        THEN [ same EXCEPT !.flip = [ flip EXCEPT ![s] = data ] ]
        ELSE same

\* The handler that ran last: its name, its session, and for "data" its
\* argument.
Last(op, s, e) == [ op |-> op, s |-> s, e |-> e ]

\* ------------------------------------------------------------------ Init
Init ==
    /\ id = [ s \in Sess |-> NoId ]
    /\ opened = [ s \in Sess |-> FALSE ]
    /\ handleClosed = {}
    /\ connectionState = [ s \in Sess |-> "connected" ]
    /\ x = [ s \in Sess |-> Zero ]
    /\ y = [ s \in Sess |-> Zero ]
    /\ animation = [ s \in Sess |-> Zero ]
    /\ flip = [ s \in Sess |-> Scalar(Zero) ]
    /\ players = << >>
    /\ timers = EmptyBag
    /\ nevents = 0
    /\ sent = << >>
    /\ told = [ s \in Sess |-> {} ]
    /\ last = Last("init", NoSess, NoMsg)

Created(s) == id[s] # NoId
\* The transport's own notion of an open connection: "open" has fired and
\* the connection was not closed.
ConnOpen(s) == opened[s] /\ s \notin handleClosed

\* --------------------------------------------------------------- actions
\* peer.on("connection"): a DataConnection of peer i arrives; new Player.
\* The constructor repeats the lookup of the handler, registers the four
\* handlers and runs disconnectChecker() once.
Connection(s, i, emit) ==
    /\ nevents < MaxEvents /\ nevents' = nevents + 1
    /\ ~Created(s)
    /\ \A r \in Sess : r < s => Created(r)
    /\ s = 1 => i = "A"      \* identities are only compared: the first is A
    /\ emit => Has(players, i)
    /\ LET w1 == CloseRegistered(World, i, emit)
           w2 == CloseRegistered(w1, i, emit)
       IN  Apply(DisconnectChecker(w2, s, emit))
    /\ id' = [ id EXCEPT ![s] = i ]
    /\ sent' = << >>
    /\ last' = Last("connection", s, NoMsg)
    /\ UNCHANGED << opened, x, y, animation, flip, told >>

\* connection.on("open"): fires once, on a connection that was not closed.
OnOpen(s) ==
    /\ nevents < MaxEvents /\ nevents' = nevents + 1
    /\ Created(s) /\ ~opened[s] /\ s \notin handleClosed
    /\ opened' = [ opened EXCEPT ![s] = TRUE ]
    /\ players' = MapSet(players, id[s], s)
    /\ sent' = << >>
    /\ last' = Last("open", s, NoMsg)
    /\ UNCHANGED << id, handleClosed, connectionState, x, y, animation, flip,
                    timers, told >>

\* connection.on("close"): the transport closes an open connection (the
\* remote side closed it, or the link is gone) and emits "close".  A
\* connection that never opened emits no "close".
OnClose(s) ==
    /\ nevents < MaxEvents /\ nevents' = nevents + 1
    /\ ConnOpen(s)
    /\ Apply(PlayerClose(World, s, FALSE))
    /\ sent' = << >>
    /\ last' = Last("close", s, NoMsg)
    /\ UNCHANGED << id, opened, x, y, animation, flip, told >>

\* connection.on("error"): this.close(); players.delete(this.id).
ErrorHandler(w, s, emit) ==
    LET w1 == PlayerClose(w, s, emit)
    IN  [ w1 EXCEPT !.players = Delete(@, id[s]) ]
OnError(s, emit) ==
    /\ nevents < MaxEvents /\ nevents' = nevents + 1
    /\ Created(s)
    /\ emit => ConnOpen(s)
    /\ Apply(ErrorHandler(World, s, emit))
    /\ sent' = << >>
    /\ last' = Last("error", s, NoMsg)
    /\ UNCHANGED << id, opened, x, y, animation, flip, told >>

\* connection.on("data"): data arrives on an open connection only.
OnData(s, e) ==
    /\ nevents < MaxEvents /\ nevents' = nevents + 1
    /\ ConnOpen(s)
    /\ LET r == OnUpdate(s, e)
       IN  /\ x' = r.x /\ y' = r.y /\ animation' = r.animation /\ flip' = r.flip
           /\ sent' = r.sent
    /\ last' = Last("data", s, e)
    /\ UNCHANGED << id, opened, handleClosed, connectionState, players, timers, told >>

\* The browser changes the connectivity status of a live connection.
ConnStateChange(s, st) ==
    /\ nevents < MaxEvents /\ nevents' = nevents + 1
    /\ Created(s) /\ s \notin handleClosed
    /\ st # connectionState[s]
    /\ connectionState' = [ connectionState EXCEPT ![s] = st ]
    /\ sent' = << >>
    /\ last' = Last("state", s, NoMsg)
    /\ UNCHANGED << id, opened, handleClosed, x, y, animation, flip, players,
                    timers, told >>

\* A pending disconnectChecker timer of session s fires.  On a closed
\* connection the read of _c.peerConnection.connectionState either throws
\* (the transport dropped peerConnection; the callback dies) or yields
\* "closed".  Timers are taken in any order.  A tick that only re-arms the
\* checker puts back the timer it took and leaves the state as it was (sent
\* and last keep describing the last handler that did more than that): it is
\* a stuttering step, which [Next]_vars admits, and is not enumerated here.
CheckTick(s, emit, throws) ==
    /\ BagIn(<< "check", s >>, timers)
    /\ throws => s \in handleClosed
    /\ emit => (ConnOpen(s) /\ FailedState(connectionState[s]))
    /\ LET w == [ World EXCEPT !.timers = Cancel(@, "check", s) ]
           after == IF throws THEN w ELSE DisconnectChecker(w, s, emit)
       IN  /\ after # World
           /\ Apply(after)
           /\ sent' = << >>
           /\ last' = Last("check", s, NoMsg)
    /\ UNCHANGED << id, opened, x, y, animation, flip, nevents, told >>

\* A pending callback that close() of session s scheduled fires.
GraceFire(s) ==
    /\ BagIn(<< "grace", s >>, timers)
    /\ timers' = Cancel(timers, "grace", s)
    /\ sent' = SendDisconnected(players, s)
    /\ told' = [ told EXCEPT ![s] = @ \cup { m.to : m \in Range(SendDisconnected(players, s)) } ]
    /\ last' = Last("grace", s, NoMsg)
    /\ UNCHANGED << id, opened, handleClosed, connectionState, x, y, animation,
                    flip, players, nevents >>

Next ==
    \/ \E s \in Sess, i \in Identities, emit \in BOOLEAN : Connection(s, i, emit)
    \/ \E s \in Sess : OnOpen(s)
    \/ \E s \in Sess : OnClose(s)
    \/ \E s \in Sess, emit \in BOOLEAN : OnError(s, emit)
    \/ \E s \in Sess, e \in Events : OnData(s, e)
    \/ \E s \in Sess, st \in ConnStates \ {"closed"} : ConnStateChange(s, st)
    \/ \E s \in Sess, emit \in BOOLEAN, throws \in BOOLEAN : CheckTick(s, emit, throws)
    \/ \E s \in Sess : GraceFire(s)

Spec == Init /\ [][Next]_vars

\* ================================================================ claims

\* The step admits connection s of peer i (peer.on("connection") ran).
Admits(s, i) == ~Created(s) /\ id'[s] = i

\* C1: for every identity at most one session is Open (its "open" has fired
\* and its handle was not closed), also when a second connection of the
\* identity is admitted while the first is still connecting.
C1_AtMostOneOpenPerIdentity ==
    \A s, r \in Sess : (s # r /\ ConnOpen(s) /\ ConnOpen(r)) => id[s] # id[r]

\* C2: admitting a connection of an identity whose session is open and
\* registered closes that session's handle and removes it from the registry
\* in the admission step, the new session is not yet inserted, and no other
\* handle is closed.
C2_AdmissionClosesPrevious ==
    [][ \A s \in Sess, i \in Identities :
          (Admits(s, i) /\ Has(players, i) /\ ConnOpen(Get(players, i)))
          => /\ handleClosed' = handleClosed \cup { Get(players, i) }
             /\ ~Has(players', i)
             /\ Len(players') = Len(players) - 1
      ]_vars

C2_Witness ==
    /\ last.op = "connection"
    /\ ~Has(players, id[last.s])
    /\ \E p \in Sess : /\ p # last.s /\ id[p] = id[last.s]
                       /\ opened[p] /\ p \in handleClosed
                       /\ BagIn(<< "grace", p >>, timers)
    /\ \E r \in Sess : Registered(r) /\ ConnOpen(r)

\* C3: a roster ("update") payload sent to session S has no entry whose name
\* is S's identity, also when S was displaced by a newer session of the same
\* identity.
IsRoster(m) == m.eventName = "update"
C3_RosterExcludesSelf ==
    \A k \in DOMAIN sent :
        IsRoster(sent[k]) =>
            \A j \in DOMAIN sent[k].data.list : sent[k].data.list[j].name # id[sent[k].to]

\* A roster was sent to a session that a newer session of its identity has
\* replaced in the registry.
C3_Witness ==
    \E k \in DOMAIN sent :
        /\ IsRoster(sent[k])
        /\ Has(players, id[sent[k].to])
        /\ Get(players, id[sent[k].to]) # sent[k].to

\* The step handles data event e on session s.
Handles(s, e) == nevents' = nevents + 1 /\ last' = Last("data", s, e)

\* The roster entry of a session that holds the state {x:1, y:2, animation:0}
\* and never got a "flip".
EntryA(a) == [ x |-> "n:1", y |-> "n:2", animation |-> Zero, flip |-> Scalar(Zero), name |-> id[a] ]
HoldsA(a) == x[a] = "n:1" /\ y[a] = "n:2" /\ animation[a] = Zero /\ flip[a] = Scalar(Zero)
\* m is a roster for session b with exactly one entry for a's identity, and
\* that entry is EntryA(a).
RosterWithA(m, b, a) ==
    /\ IsRoster(m) /\ m.to = b
    /\ \E j \in DOMAIN m.data.list : m.data.list[j] = EntryA(a)
    /\ Cardinality({ j \in DOMAIN m.data.list : m.data.list[j].name = id[a] }) = 1
BothRegistered(a, b) ==
    /\ a # b /\ id[a] # id[b]
    /\ ConnOpen(a) /\ ConnOpen(b)
    /\ Get(players, id[a]) = a /\ Get(players, id[b]) = b

\* C4 (as stated): when A and B are open and registered and A sends "update"
\* {x:1, y:2, animation:0}, that update makes the server send B a roster with
\* one entry {x:1, y:2, animation:0, flip:0, name:A}.
C4_UpdatePushedToOthers ==
    [][ \A a, b \in Sess :
          (Handles(a, UpdateA) /\ BothRegistered(a, b) /\ flip[a] = Scalar(Zero))
          => \E k \in DOMAIN sent' : RosterWithA(sent'[k], b, a)
      ]_vars

\* C4 (amended): A's update sends nothing to B; B is sent the roster with
\* the one entry {x:1, y:2, animation:0, flip:0, name:A} by the next "update"
\* that B itself sends while A is registered with that state.
IsAppliedUpdate(e) == e.eventName = "update" /\ ~Ignored(e)
C4_RosterOnOwnUpdate ==
    [][ \A a, b \in Sess :
          /\ (Handles(a, UpdateA) /\ BothRegistered(a, b))
             => \A k \in DOMAIN sent' : sent'[k].to # b
          /\ (Handles(b, last'.e) /\ IsAppliedUpdate(last'.e) /\ BothRegistered(a, b) /\ HoldsA(a))
             => /\ Len(sent') = 1
                /\ RosterWithA(sent'[1], b, a)
      ]_vars

C4_Witness ==
    \E a, b \in Sess :
        /\ BothRegistered(a, b) /\ HoldsA(a)
        /\ last.op = "data" /\ last.s = b /\ IsAppliedUpdate(last.e)
        /\ Len(sent) = 1 /\ RosterWithA(sent[1], b, a)

\* C5 (as stated): an "update" whose decoded payload has a non-numeric x
\* (a non-empty string as the bundled client sends, or no x) leaves the
\* session's x at 0.
IsNumber(v) == v \in { "n:0", "n:1", "n:2" }
C5_NonNumericXIsZero ==
    [][ \A s \in Sess :
          (Handles(s, last'.e) /\ IsAppliedUpdate(last'.e)
              /\ ~IsNumber(GetX(JSONparse(last'.e.data).value)))
          => x'[s] = Zero
      ]_vars

\* C6: a data message that cannot be parsed, has no event name or has an
\* unrecognized event name changes nothing: the session stays registered with
\* its handle open and its fields, every other session and the registry are
\* unchanged, and nothing is sent.
Malformed(e) ==
    \/ ~e.defined
    \/ e.eventName = Undefined
    \/ ~e.data.valid
    \/ e.eventName \notin { "update", "flip" }
C6_MalformedIsNoOp ==
    [][ \A s \in Sess :
          (Handles(s, last'.e) /\ Malformed(last'.e))
          => /\ UNCHANGED << x, y, animation, flip, players, handleClosed, timers,
                             id, opened, connectionState >>
             /\ sent' = << >>
      ]_vars

\* A registered session that holds a non-zero state and a flip got a message
\* that cannot be parsed.
C6_Witness ==
    /\ last.op = "data" /\ ~last.e.data.valid /\ last.e.eventName = "flip"
    /\ x[last.s] # Zero /\ flip[last.s] # Scalar(Zero)
    /\ Registered(last.s) /\ ConnOpen(last.s)
    /\ sent = << >>

\* C7: once a session was closed (by "close", "error", displacement or a
\* failed check) no liveness tick of it is pending.
C7_NoTickAfterClose ==
    \A s \in handleClosed : ~BagIn(<< "check", s >>, timers)

\* C8 (as stated): when a connection of identity A is admitted while A's
\* session is open and registered, the registry keeps exactly one entry keyed
\* by A and its size, also before the new connection's "open".
C8_EntryKeptThroughAdmission ==
    [][ \A s \in Sess, i \in Identities :
          (Admits(s, i) /\ Has(players, i) /\ ConnOpen(Get(players, i)))
          => /\ Has(players', i)
             /\ Len(players') = Len(players)
      ]_vars

\* C8 (amended): the admission closes the first session and removes its
\* entry, so that no entry is keyed by A and the registry is one entry
\* smaller; the "open" of a connection makes its session the one entry keyed
\* by its identity, and adds an entry only if the key was absent.
EntriesFor(pl, i) == Cardinality({ k \in DOMAIN pl : pl[k][1] = i })
Opens(s) == ~opened[s] /\ opened'[s]
C8_EntryBackAtOpen ==
    [][ /\ \A s \in Sess, i \in Identities :
             (Admits(s, i) /\ Has(players, i) /\ ConnOpen(Get(players, i)))
             => /\ Get(players, i) \in handleClosed'
                /\ EntriesFor(players', i) = 0
                /\ Len(players') = Len(players) - 1
        /\ \A s \in Sess :
             Opens(s)
             => /\ EntriesFor(players', id[s]) = 1
                /\ Get(players', id[s]) = s
                /\ Len(players') = Len(players) + (IF Has(players, id[s]) THEN 0 ELSE 1)
      ]_vars

\* The connection that displaced an open session of its identity has opened
\* and holds the one entry of that identity.
C8_Witness ==
    /\ last.op = "open"
    /\ EntriesFor(players, id[last.s]) = 1 /\ Get(players, id[last.s]) = last.s
    /\ \E p \in Sess : /\ p < last.s /\ id[p] = id[last.s]
                       /\ opened[p] /\ p \in handleClosed

\* C9: when session B was closed while session A of another identity is
\* registered, then A is eventually sent "disconnected" with B's identity
\* (unless A leaves the registry first); the event is never sent to a session
\* registered under the departed identity.
IsDisconnected(m, i) == m.eventName = "disconnected" /\ ~m.data.stringified /\ m.data.str = i
SentDisconnected(a, b) == \E k \in DOMAIN sent : sent[k].to = a /\ IsDisconnected(sent[k], id[b])
GracePending(b) == b \in handleClosed /\ BagIn(<< "grace", b >>, timers)
C9_NotOwnIdentity ==
    \A k \in DOMAIN sent :
        sent[k].eventName = "disconnected" => sent[k].data.str # id[sent[k].to]
\* A pending callback of close() of b goes away only by running, the run
\* sends the event to every session registered under another identity, and
\* again and again no callback is left pending: so a session that stays
\* registered is sent the event.
GraceLeaves(b) == CopiesIn(<< "grace", b >>, timers') < CopiesIn(<< "grace", b >>, timers)
C9_DisconnectedReachesOthers ==
    /\ []C9_NotOwnIdentity
    /\ [][ \A b \in Sess : \A a \in Sess \ {b} :
             (GraceLeaves(b) /\ Registered(a) /\ ConnOpen(a) /\ id[a] # id[b])
             => \E k \in DOMAIN sent' : sent'[k].to = a /\ IsDisconnected(sent'[k], id[b])
         ]_vars
    /\ []<>(\A b \in Sess : ~GracePending(b))

C9_Witness ==
    \E a, b \in Sess :
        /\ last.op = "grace" /\ last.s = b
        /\ Registered(a) /\ ConnOpen(a) /\ id[a] # id[b]
        /\ opened[b] /\ b \in handleClosed
        /\ SentDisconnected(a, b)

\* C10: however often close(), "close", "error" or a failed check occur for
\* one session, every other session is sent at most one "disconnected" for it.
C10_DisconnectedOnce ==
    [][ \A s \in Sess :
          (last'.op = "grace" /\ last'.s = s /\ BagIn(<< "grace", s >>, timers))
          => \A k \in DOMAIN sent' : sent'[k].to \notin told[s]
      ]_vars

\* Session s is no longer the current session of its identity: a connection
\* of the same peer was admitted after it.
Superseded(s) == \E r \in Sess : r > s /\ id[r] = id[s]

\* C11: the "open" event of a session that a newer session of its identity
\* has superseded does not insert that session into the registry and does not
\* replace the entry of the newer session: the registry stays as it was.
C11_LateOpenNotInserted ==
    [][ \A s \in Sess :
          (Opens(s) /\ Superseded(s))
          => /\ players' = players
             /\ ~(\E k \in DOMAIN players' : players'[k][2] = s)
      ]_vars

\* The step runs the "close" handler, the "error" handler or a liveness tick
\* that closes, on session s.
ClosesBy(op, s) == last'.op = op /\ last'.s = s /\ s \in handleClosed'

\* C12: a "close" event, an "error" event or a failed liveness check on a
\* session that is not the one registered under its identity leaves the
\* registry unchanged; a late "error" of an older session never removes the
\* newer session of the same identity.
C12_StaleCloseKeepsRegistry ==
    [][ \A s \in Sess :
          ((ClosesBy("close", s) \/ ClosesBy("error", s) \/ ClosesBy("check", s))
              /\ Get(players, id[s]) # s)
          => players' = players
      ]_vars

\* C13 (as stated): handling a message named "update" from session S sends
\* exactly one message, a roster, on S's own connection.
IsUpdateMsg(e) == e.defined /\ e.eventName = "update"
C13_EveryUpdateAnswered ==
    [][ \A s \in Sess :
          (Handles(s, last'.e) /\ IsUpdateMsg(last'.e))
          => /\ Len(sent') = 1
             /\ IsRoster(sent'[1]) /\ sent'[1].to = s
      ]_vars

\* C13 (amended): an "update" whose payload decodes to a value other than
\* null sends exactly one message, a roster, on S's own connection and
\* nothing on any other connection; an "update" whose payload cannot be
\* decoded or is null sends nothing at all.
DecodesToValue(e) == e.data.valid /\ e.data.val.t # "null"
C13_UpdateAnswersSenderOnly ==
    [][ \A s \in Sess :
          (Handles(s, last'.e) /\ IsUpdateMsg(last'.e))
          => IF DecodesToValue(last'.e)
             THEN /\ Len(sent') = 1
                  /\ IsRoster(sent'[1]) /\ sent'[1].to = s
                  /\ \A k \in DOMAIN sent' : sent'[k].to = s
             ELSE sent' = << >>
      ]_vars

\* An update was answered on the sender's connection while a session of
\* another identity is registered and open, and got nothing.
C13_Witness ==
    /\ last.op = "data" /\ IsUpdateMsg(last.e) /\ DecodesToValue(last.e)
    /\ Len(sent) = 1 /\ sent[1].to = last.s /\ Len(sent[1].data.list) = 1
    /\ \E r \in Sess : /\ id[r] # id[last.s] /\ Registered(r) /\ ConnOpen(r)
                       /\ \A k \in DOMAIN sent : sent[k].to # r

\* C14: the roster built for session S is the registry at that instant: one
\* entry for every registry key other than S's identity, carrying the current
\* x, y, animation and flip of the session registered under the key and the
\* key as name, and no other entry; so none for a session that is connecting,
\* closed or removed.
KeysBut(i) == { k \in DOMAIN players : players[k][1] # i }
SnapshotOf(k) ==
    [ x |-> x[players[k][2]], y |-> y[players[k][2]],
      animation |-> animation[players[k][2]], flip |-> flip[players[k][2]],
      name |-> players[k][1] ]
C14_RosterIsSnapshot ==
    \A m \in DOMAIN sent :
        IsRoster(sent[m]) =>
            LET list == sent[m].data.list
                own == id[sent[m].to]
            IN  /\ Len(list) = Cardinality(KeysBut(own))
                /\ \A k \in KeysBut(own) :
                      /\ \E j \in DOMAIN list : list[j] = SnapshotOf(k)
                      /\ Cardinality({ j \in DOMAIN list : list[j].name = players[k][1] }) = 1
                /\ \A j \in DOMAIN list :
                      /\ Has(players, list[j].name)
                      /\ opened[Get(players, list[j].name)]
                      /\ Get(players, list[j].name) \notin handleClosed

\* A roster with an entry was built while another session of the entry's
\* identity is connecting or closed.
C14_Witness ==
    \E m \in DOMAIN sent :
        /\ IsRoster(sent[m]) /\ Len(sent[m].data.list) = 1
        /\ \E r \in Sess : /\ id[r] = sent[m].data.list[1].name
                           /\ ~Registered(r)
                           /\ (~opened[r] \/ r \in handleClosed)

\* C15: a "flip" message changes only the flip field of the session it came
\* from (to the decoded payload; an undecodable payload changes nothing): x,
\* y, animation, every other session and the registry stay as they are and
\* nothing is sent; rosters carry the flip the registered session holds when
\* they are built, so the new value reaches a client with the next roster it
\* requests.
IsFlipMsg(e) == e.defined /\ e.eventName = "flip"
RosterFlipIsCurrent ==
    \A m \in DOMAIN sent :
        IsRoster(sent[m]) =>
            \A j \in DOMAIN sent[m].data.list :
                sent[m].data.list[j].flip = flip[Get(players, sent[m].data.list[j].name)]
C15_FlipChangesOnlyFlip ==
    /\ [][ \A s \in Sess :
             (Handles(s, last'.e) /\ IsFlipMsg(last'.e))
             => /\ UNCHANGED << x, y, animation, players, handleClosed, timers,
                                id, opened, connectionState >>
                /\ \A r \in Sess \ {s} : flip'[r] = flip[r]
                /\ flip'[s] = IF last'.e.data.valid THEN last'.e.data.val ELSE flip[s]
                /\ sent' = << >>
         ]_vars
    /\ []RosterFlipIsCurrent

\* A session's flip has reached another client in the roster that client
\* requested after it.
C15_Witness ==
    /\ last.op = "data" /\ IsUpdateMsg(last.e)
    /\ \E m \in DOMAIN sent :
          /\ IsRoster(sent[m]) /\ sent[m].to = last.s
          /\ \E j \in DOMAIN sent[m].data.list :
                /\ sent[m].data.list[j].flip = Scalar("true")
                /\ sent[m].data.list[j].name # id[last.s]

\* C16: while the connectivity status of a session is failed or disconnected
\* its monitor is pending on an unclosed connection; the tick that reads the
\* status closes the handle, removes the session from the registry and
\* schedules the "disconnected" callback, as close() does for a "close"
\* event, and leaves no tick of the session pending; with ticks that fire, a
\* registered session whose status became failed or disconnected does not
\* keep that status: if the status stays until the tick, the tick closes it
\* (again and again no registered session has such a status).
Unreachable(s) == connectionState[s] \in { "failed", "disconnected" }
MonitorPending(s) == BagIn(<< "check", s >>, timers)
\* The step is the tick of s that reads a failed or disconnected status (a
\* later tick of s finds the connection closed).
FailedTick(s) == last'.op = "check" /\ last'.s = s /\ Unreachable(s)
C16_FailedSessionIsClosed ==
    /\ [](\A s \in Sess : (Created(s) /\ Unreachable(s))
                              => (MonitorPending(s) /\ s \notin handleClosed))
    /\ [][ \A s \in Sess :
             FailedTick(s)
             => /\ handleClosed' = handleClosed \cup {s}
                /\ ~(\E k \in DOMAIN players' : players'[k][2] = s)
                /\ players' = RemoveIfCurrent(players, s)
                /\ CopiesIn(<< "grace", s >>, timers') > CopiesIn(<< "grace", s >>, timers)
                /\ ~BagIn(<< "check", s >>, timers')
         ]_vars
    /\ []<>(\A s \in Sess : ~(Registered(s) /\ Unreachable(s)))

\* The monitor of a session that was registered, the only one of its
\* identity, has closed it: it is out of the registry, its "disconnected"
\* callback is pending and its monitor is not.
C16_Witness ==
    /\ last.op = "check"
    /\ opened[last.s] /\ last.s \in handleClosed /\ ~Registered(last.s)
    /\ \A r \in Sess \ {last.s} : id[r] # id[last.s]
    /\ BagIn(<< "grace", last.s >>, timers)
    /\ ~MonitorPending(last.s)

\* C17: the x, y, animation and flip of a session change only in a step that
\* handles a data message received on that session's connection (admission,
\* "open", "close", "error", ticks, "disconnected" callbacks and data of other
\* sessions leave them alone), and a data message leaves the registry as it
\* is.
FieldsOf(s) == << x[s], y[s], animation[s], flip[s] >>
DataStep == nevents' = nevents + 1 /\ last'.op = "data"
C17_StateChangesOnlyOnOwnData ==
    [][ /\ \A s \in Sess : FieldsOf(s)' # FieldsOf(s) => (DataStep /\ last'.s = s)
        /\ DataStep => players' = players
      ]_vars

\* A session has taken an update while another session of the same identity
\* keeps the initial state.
C17_Witness ==
    /\ last.op = "data" /\ x[last.s] # Zero /\ flip[last.s] # Scalar(Zero)
    /\ \E r \in Sess \ {last.s} :
          /\ id[r] = id[last.s] /\ opened[r]
          /\ FieldsOf(r) = << Zero, Zero, Zero, Scalar(Zero) >>

\* C18: a "disconnected" event carrying identity i is never sent while a
\* session is registered under i; so not after a reconnect of i whose new
\* session opened before the callback of the displaced session ran.
C18_NoDisconnectedWhileRegistered ==
    \A m \in DOMAIN sent :
        sent[m].eventName = "disconnected" => ~Has(players, sent[m].data.str)

\* C19: every registered session has had its "open" event and an unclosed
\* handle (no connecting and no closed session is registered), so that no
\* roster entry stands for, and no message is sent to, a session whose
\* close() has run.
C19_RegistryHoldsOpenSessions ==
    /\ \A k \in DOMAIN players :
          opened[players[k][2]] /\ players[k][2] \notin handleClosed
    /\ \A m \in DOMAIN sent :
          /\ sent[m].to \notin handleClosed
          /\ \A j \in DOMAIN sent[m].data.list :
                Get(players, sent[m].data.list[j].name) \notin handleClosed

\* "disconnected" has gone out to a registered session for a session that was
\* registered and is closed, while a third session is still connecting.
C19_Witness ==
    /\ last.op = "grace" /\ Len(sent) > 0
    /\ opened[last.s] /\ last.s \in handleClosed /\ ~Registered(last.s)
    /\ \E r \in Sess : Created(r) /\ ~opened[r] /\ r \notin handleClosed

\* C20: a "disconnected" event carrying identity i is sent only if a session
\* of i was inserted into the registry before (its "open" event has fired);
\* a connection that errors or fails its liveness check while connecting
\* makes the server send nothing.
C20_DisconnectedOnlyAfterOpen ==
    \A m \in DOMAIN sent :
        sent[m].eventName = "disconnected"
        => \E r \in Sess : id[r] = sent[m].data.str /\ opened[r]

\* A due callback of close() runs: the browser does not starve timers.
FairTimers == WF_vars(\E s \in Sess : GraceFire(s))
LiveSpec == Init /\ [][Next]_vars /\ FairTimers

\* A due disconnectChecker tick runs: a pending tick that would read a
\* failed or disconnected status does not stay pending for ever (it runs,
\* with or without the transport emitting "close" from inside close(), or
\* the status changes first).
FairTicks ==
    WF_vars(\E s \in Sess :
                FailedState(connectionState[s]) /\ CheckTick(s, FALSE, FALSE))
TickSpec == Init /\ [][Next]_vars /\ FairTicks

====
